---- MODULE Spec2Model ----
(***************************************************************************)
(* Verification model of STM32-GUI-Builder's front end.                    *)
(*                                                                         *)
(*   SpecRange   src/utils/range-parser.ts: parseNumericRange and          *)
(*               validateNumericRange applied to bounded input strings.    *)
(*   SpecBuild   composables/useBuildProcess.ts (the version with the      *)
(*               build-cancelled listener) driven by BuildControls.vue.    *)
(*   SpecForm    the checkbox_group handlers of BuildSettings.vue and      *)
(*               AdditionalOptions.vue.                                    *)
(*   SpecSession the per-combination loop of the build_project command,    *)
(*               which lives in the Rust back end.                         *)
(*   SpecSchema  loading and validating the schema document.               *)
(*   SpecGenerate the Combination Generator and the Header Emitter of the  *)
(*               back end.                                                 *)
(*   SpecSettings the settings form together with the Build button.        *)
(*   SpecBuildLive the build process under fair scheduling.                *)
(*   SpecLegacy  composables/useBuildProcess.ts in the version that sets   *)
(*               the 'cancelled' status.                                   *)
(*   SpecLogs    the build-log listener of App.vue.                        *)
(*                                                                         *)
(* A JavaScript string is a sequence of one-character strings.             *)
(***************************************************************************)
EXTENDS Integers, Sequences, FiniteSets, TLC

VARIABLES
    \* ---- SpecRange
    rangeStr,       \* the rangeStr argument
    min,            \* the min argument
    max,            \* the max argument
    rpc,            \* "input" -> "validated" -> "parsed" -> "stored"
    valid,          \* what validateNumericRange returned
    types,          \* what parseNumericRange returned
    \* ---- SpecBuild
    settings,       \* the required fields of settings that hold a path
    buildStatus,    \* buildStatus.value
    buildMessages,  \* buildMessages.value
    isCancelling,   \* isCancelling.value
    bpc,            \* per build() call: "none", "awaiting" (build_project
                    \* outstanding) or "done"
    cpc,            \* per handleCancel() call: "none", "ignored", "listening",
                    \* "invoking", "answered" (cancel_build done, its
                    \* response on its way) or "done"
    listeners,      \* the registered build-cancelled listeners
    timers,         \* the handleCancel() calls whose fallback timer is armed
    pending,        \* listeners a build-cancelled event is on its way to
    cancelSeen,     \* build_project calls the back end was told to cancel
    owed,           \* build-cancelled events the back end has yet to emit
    acks,           \* how often a cancellation outcome was applied
    \* ---- SpecForm
    minSelected,    \* min_selected of each checkbox_group of the schema
    buildConfig,    \* buildConfig.value, its settings of type checkbox_group
    localSettings,  \* BuildSettings.vue: localSettings.value
    validationErrors, \* BuildSettings.vue: validationErrors.value
    rangeInputs,    \* BuildSettings.vue: rangeInputs.value
    optMin,         \* AdditionalOptions.vue: props.setting.min_selected
    optValue,       \* AdditionalOptions.vue: props.value
    validationError, \* AdditionalOptions.vue: validationError.value
    \* ---- SpecSession
    ctl,            \* state of the Cancellation Controller
    nCombos,        \* number of combinations of the session
    cursor,         \* the session's cursor, 1..nCombos + 1
    phase,          \* where the Session Aggregator's loop stands
    results,        \* exit classification recorded per combination
    headerStarted,  \* combinations the Header Emitter was invoked for
    runnerStarted,  \* combinations the Process Runner was invoked for
    cancelAt,       \* combination whose process ran when cancel was asked
    ackEvents,      \* cancellation-acknowledged events emitted
    sessionSuccess, \* the aggregated success flag the session returns
    \* ---- SpecSchema
    schemaDoc,      \* the schema document the back end reads
    schemaPc,       \* "start" -> "answered" -> "returned" or "thrown"
    backendAnswer,  \* how load_build_settings_schema settled
    loadedSchema,   \* what loadBuildSettings returned to its caller
    \* ---- SpecGenerate
    request,        \* the resolved values of the build request, per setting
    combos,         \* the generated combinations, in order
    genPc,          \* where the request stands
    genCursor,      \* index of the combination being processed
    headerFile,     \* the target header file
    tempFile,       \* the temporary file next to it
    launched,       \* combinations the build tool was launched for
    \* ---- SpecLogs
    buildLogs,      \* buildLogs.value
    currentStdout,  \* currentStdout.value
    received        \* the payloads of the build-log events received so far

rangeVars == <<rangeStr, min, max, rpc, valid, types>>

buildVars == <<settings, buildStatus, buildMessages, isCancelling, bpc, cpc,
               listeners, timers, pending, cancelSeen, owed, acks>>

formVars == <<minSelected, buildConfig, localSettings, validationErrors,
              rangeInputs, optMin, optValue, validationError>>

sessionVars == <<ctl, nCombos, cursor, phase, results, headerStarted,
                 runnerStarted, cancelAt, ackEvents, sessionSuccess>>

schemaVars == <<schemaDoc, schemaPc, backendAnswer, loadedSchema>>

genVars == <<request, combos, genPc, genCursor, headerFile, tempFile, launched>>

logVars == <<buildLogs, currentStdout, received>>

vars == <<rangeVars, buildVars, formVars, sessionVars, schemaVars, genVars,
          logVars>>

outsideRange == <<buildVars, formVars, sessionVars, schemaVars, genVars,
                   logVars>>

outsideBuild == <<rangeVars, formVars, sessionVars, schemaVars, genVars,
                   logVars>>

outsideForm == <<rangeVars, buildVars, sessionVars, schemaVars, genVars,
                  logVars>>

outsideSession == <<rangeVars, buildVars, formVars, schemaVars, genVars,
                     logVars>>

outsideSchema == <<rangeVars, buildVars, formVars, sessionVars, genVars,
                    logVars>>

outsideLogs == <<rangeVars, buildVars, formVars, sessionVars, schemaVars,
                 genVars>>

outsideGenerate == <<rangeVars, buildVars, formVars, sessionVars, schemaVars,
                      logVars>>

(***************************************************************************)
(* Bounds of the range model.                                              *)
(***************************************************************************)
MaxLen == 5
MaxBound == 3

\* the characters the input strings are drawn from
Chars == {"1", "2", "-", ",", " "}

RECURSIVE StringsOfLen(_)
StringsOfLen(n) ==
    IF n = 0 THEN {<<>>}
    ELSE {Append(s, c) : s \in StringsOfLen(n - 1), c \in Chars}

Strings == UNION {StringsOfLen(n) : n \in 0..MaxLen}

(***************************************************************************)
(* JavaScript string primitives used by range-parser.ts.                   *)
(***************************************************************************)
IsSpace(c) == c = " "

IsDigit(c) == c \in {"0", "1", "2", "3", "4", "5", "6", "7", "8", "9"}

DigitVal(c) ==
    CASE c = "0" -> 0 [] c = "1" -> 1 [] c = "2" -> 2 [] c = "3" -> 3
      [] c = "4" -> 4 [] c = "5" -> 5 [] c = "6" -> 6 [] c = "7" -> 7
      [] c = "8" -> 8 [] c = "9" -> 9

\* number of consecutive whitespace characters of s from position i on
RECURSIVE SpaceRun(_, _)
SpaceRun(s, i) ==
    IF i <= Len(s) /\ IsSpace(s[i]) THEN 1 + SpaceRun(s, i + 1) ELSE 0

RECURSIVE TrimEnd(_)
TrimEnd(s) ==
    IF Len(s) > 0 /\ IsSpace(s[Len(s)]) THEN TrimEnd(SubSeq(s, 1, Len(s) - 1))
    ELSE s

\* String.prototype.trim
Trim(s) == TrimEnd(SubSeq(s, SpaceRun(s, 1) + 1, Len(s)))

\* String.prototype.includes for a one-character needle
Includes(s, c) == \E i \in 1..Len(s) : s[i] = c

\* String.prototype.split for a one-character separator
RECURSIVE SplitFrom(_, _, _, _)
SplitFrom(s, sep, i, cur) ==
    IF i > Len(s) THEN <<cur>>
    ELSE IF s[i] = sep THEN <<cur>> \o SplitFrom(s, sep, i + 1, <<>>)
    ELSE SplitFrom(s, sep, i + 1, Append(cur, s[i]))

Split(s, sep) == SplitFrom(s, sep, 1, <<>>)

\* s.replace(/\s*-\s*/, '-') and, with all = TRUE, s.replace(/\s*-\s*/g, '-'):
\* the leftmost match starts at the whitespace run that touches a hyphen
RECURSIVE ReplaceFrom(_, _, _)
ReplaceFrom(s, i, all) ==
    IF i > Len(s) THEN <<>>
    ELSE LET h == i + SpaceRun(s, i) IN
         IF h <= Len(s) /\ s[h] = "-"
         THEN LET e == h + 1 + SpaceRun(s, h + 1) IN
              <<"-">> \o (IF all THEN ReplaceFrom(s, e, all)
                                 ELSE SubSeq(s, e, Len(s)))
         ELSE <<s[i]>> \o ReplaceFrom(s, i + 1, all)

ReplaceHyphen(s) == ReplaceFrom(s, 1, FALSE)

ReplaceHyphenAll(s) == ReplaceFrom(s, 1, TRUE)

\* NaN and numbers as parseInt returns them
NaN == [nan |-> TRUE, val |-> 0]

Num(n) == [nan |-> FALSE, val |-> n]

IsNaN(x) == x.nan

RECURSIVE DigitRun(_, _)
DigitRun(s, i) ==
    IF i <= Len(s) /\ IsDigit(s[i]) THEN 1 + DigitRun(s, i + 1) ELSE 0

RECURSIVE DecVal(_)
DecVal(s) ==
    IF Len(s) = 0 THEN 0
    ELSE 10 * DecVal(SubSeq(s, 1, Len(s) - 1)) + DigitVal(s[Len(s)])

\* parseInt(s, 10): leading whitespace, an optional sign, the longest run of
\* digits; NaN when there is no digit
ParseInt(s) ==
    LET t == SubSeq(s, SpaceRun(s, 1) + 1, Len(s))
        signed == Len(t) > 0 /\ t[1] \in {"-", "+"}
        u == IF signed THEN Tail(t) ELSE t
        n == DigitRun(u, 1)
        v == DecVal(SubSeq(u, 1, n))
    IN IF n = 0 THEN NaN
       ELSE IF signed /\ t[1] = "-" THEN Num(0 - v) ELSE Num(v)

\* /^(\d+(-\d+)?)(,\s*\d+(-\d+)?)*$/.test(s), as the automaton of the
\* expression: 0 start, 1 first number, 2 after '-', 3 second number,
\* 4 after ',' and its whitespace, 5 dead
RegexStep(q, c) ==
    CASE q = 0 -> IF IsDigit(c) THEN 1 ELSE 5
      [] q = 1 -> IF IsDigit(c) THEN 1
                  ELSE IF c = "-" THEN 2 ELSE IF c = "," THEN 4 ELSE 5
      [] q = 2 -> IF IsDigit(c) THEN 3 ELSE 5
      [] q = 3 -> IF IsDigit(c) THEN 3 ELSE IF c = "," THEN 4 ELSE 5
      [] q = 4 -> IF IsSpace(c) THEN 4 ELSE IF IsDigit(c) THEN 1 ELSE 5
      [] OTHER -> 5

RECURSIVE RegexRun(_, _, _)
RegexRun(s, i, q) ==
    IF i > Len(s) THEN q ELSE RegexRun(s, i + 1, RegexStep(q, s[i]))

ValidFormat(s) == RegexRun(s, 1, 0) \in {1, 3}

(***************************************************************************)
(* parseNumericRange, range-parser.ts lines 9-36.                          *)
(***************************************************************************)
\* types.includes(n)
Contains(seq, n) == \E i \in 1..Len(seq) : seq[i] = n

\* the test of line 22 on a parsed start-end pair
SpanAccepted(start, end, mn, mx) ==
    /\ ~IsNaN(start)
    /\ ~IsNaN(end)
    /\ start.val >= mn
    /\ end.val <= mx
    /\ start.val <= end.val

SingleAccepted_ExclusiveMin(num, mn, mx) ==
    /\ ~IsNaN(num)
    /\ num.val > mn
    /\ num.val <= mx

\* the test of line 29 on a parsed single number, without the includes part
SingleAccepted(num, mn, mx) ==
    /\ ~IsNaN(num)
    /\ num.val >= mn
    /\ num.val <= mx

PushUnlessIncluded_NoCheck(seq, n) == Append(seq, n)

\* if (!types.includes(i)) types.push(i)
PushUnlessIncluded(seq, n) == IF Contains(seq, n) THEN seq ELSE Append(seq, n)

\* for (let i = start; i <= end; i++) ...   (lines 23-25)
RECURSIVE PushSpan(_, _, _)
PushSpan(seq, i, end) ==
    IF i > end THEN seq ELSE PushSpan(PushUnlessIncluded(seq, i), i + 1, end)

HyphenFields_StartOnly(p) ==
    LET fields == Split(p, "-") IN
    [start |-> ParseInt(Trim(fields[1])), end |-> ParseInt(Trim(fields[1]))]

\* the first two fields of normalizedPart.split('-'), each through
\* parseInt(n.trim(), 10); a missing field is undefined, which parses to NaN
HyphenFields(p) ==
    LET fields == Split(p, "-") IN
    [start |-> ParseInt(Trim(fields[1])),
     end |-> IF Len(fields) >= 2 THEN ParseInt(Trim(fields[2])) ELSE NaN]

\* the body of the for loop over parts (lines 17-32)
ParsePart(seq, part, mn, mx) ==
    LET normalizedPart == ReplaceHyphen(part) IN
    IF Includes(normalizedPart, "-")
    THEN LET f == HyphenFields(normalizedPart) IN
         IF SpanAccepted(f.start, f.end, mn, mx)
         THEN PushSpan(seq, f.start.val, f.end.val)
         ELSE seq
    ELSE LET num == ParseInt(part) IN
         IF SingleAccepted(num, mn, mx)
         THEN PushUnlessIncluded(seq, num.val)
         ELSE seq

RECURSIVE ParseParts(_, _, _, _, _)
ParseParts(parts, i, seq, mn, mx) ==
    IF i > Len(parts) THEN seq
    ELSE ParseParts(parts, i + 1, ParsePart(seq, parts[i], mn, mx), mn, mx)

\* rangeStr.split(',').map(p => p.trim()).filter(p => p)   (line 14)
PartsOf(s) ==
    LET raw == Split(s, ",")
        trimmed == [i \in 1..Len(raw) |-> Trim(raw[i])]
    IN SelectSeq(trimmed, LAMBDA p : Len(p) > 0)

\* the null and undefined values of the rangeStr parameter
Null == <<"null">>

Undefined == <<"undefined">>

IsNullish(s) == s \in {Null, Undefined}

IsBlank_EmptyOnly(s) == IsNullish(s) \/ Len(s) = 0

\* !rangeStr?.trim()
IsBlank(s) == IsNullish(s) \/ Len(Trim(s)) = 0

SortAscending_Unsorted(seq) == seq

\* types.sort((a, b) => a - b)
SortAscending(seq) == SortSeq(seq, LAMBDA a, b : a < b)

parseNumericRange(s, mn, mx) ==
    IF IsBlank(s) THEN <<>>
    ELSE SortAscending(ParseParts(PartsOf(s), 1, <<>>, mn, mx))

(***************************************************************************)
(* validateNumericRange, range-parser.ts lines 45-62.                      *)
(***************************************************************************)
SpanValid_NoOrder(start, end, mn, mx) ==
    /\ ~IsNaN(start)
    /\ ~IsNaN(end)
    /\ start.val >= mn
    /\ end.val <= mx

\* the test of line 57
SpanValid(start, end, mn, mx) ==
    /\ ~IsNaN(start)
    /\ ~IsNaN(end)
    /\ start.val >= mn
    /\ end.val <= mx
    /\ start.val <= end.val

\* the test of line 60
SingleValid(num, mn, mx) ==
    /\ ~IsNaN(num)
    /\ num.val >= mn
    /\ num.val <= mx

\* the callback of every() (lines 53-61)
ValidatePart(part, mn, mx) ==
    LET partTrimmed == ReplaceHyphen(Trim(part)) IN
    IF Includes(partTrimmed, "-")
    THEN LET f == HyphenFields(partTrimmed) IN SpanValid(f.start, f.end, mn, mx)
    ELSE SingleValid(ParseInt(partTrimmed), mn, mx)

validateNumericRange(s, mn, mx) ==
    IF IsBlank(s) THEN TRUE
    ELSE LET trimmed == Trim(s) IN
         IF ~ValidFormat(ReplaceHyphenAll(trimmed)) THEN FALSE
         ELSE LET parts == Split(trimmed, ",") IN
              \A i \in 1..Len(parts) : ValidatePart(parts[i], mn, mx)

(***************************************************************************)
(* useBuildProcess (the composable with the build-cancelled listener) as   *)
(* App.vue wires it to BuildControls.vue.  The Rust commands build_project *)
(* and cancel_build are the environment: a call settles at any later time. *)
(***************************************************************************)
MaxBuilds == 2
MaxCancels == 2

Builds == 1..MaxBuilds

Cancels == 1..MaxCancels

\* requiredFields of build()
RequiredFields == {"projectPath", "buildDir", "cubeIdeExePath", "workspacePath"}

\* a BuildMessage; fields are the names a "Missing required fields" text lists
Msg(type, text, fields) == [type |-> type, text |-> text, fields |-> fields]

MissingMsg_AllRequired(missingFields) ==
    Msg("error", "Missing required fields", RequiredFields)

\* `Missing required fields: ${missingFields.join(', ')}`
MissingMsg(missingFields) == Msg("error", "Missing required fields", missingFields)

CancelledMsg == Msg("success", "Build cancelled by user", {})

BuildErrorMsg == Msg("error", "Build error", {})

ResultMsg_NoSummary(r) == Msg(IF r.success THEN "success" ELSE "error", "", {})

\* { type: result.success ? 'success' : 'error', text: result.result }
ResultMsg(r) == Msg(IF r.success THEN "success" ELSE "error", r.result, {})

\* the BuildResult values build_project resolves with
BuildResults ==
    {[success |-> TRUE, result |-> "Build completed"],
     [success |-> FALSE, result |-> "Build failed"],
     [success |-> FALSE, result |-> "Build cancelled"]}

\* result.result.toLowerCase().includes('cancelled')
SaysCancelled(r) == r.result = "Build cancelled"

\* the state of a specification that does not run the range functions
RangeParked ==
    /\ rangeStr = <<>>
    /\ min = 0
    /\ max = 0
    /\ rpc = "off"
    /\ valid = FALSE
    /\ types = <<>>

\* the state of a specification that does not run the settings form
FormParked ==
    /\ minSelected = <<>>
    /\ buildConfig = [settings |-> <<>>]
    /\ localSettings = <<>>
    /\ validationErrors = <<>>
    /\ rangeInputs = <<>>
    /\ optMin = 0
    /\ optValue = <<>>
    /\ validationError = <<>>

\* the state of a specification that does not run a build session
SessionParked ==
    /\ ctl = "Off"
    /\ nCombos = 0
    /\ cursor = 0
    /\ phase = "off"
    /\ results = <<>>
    /\ headerStarted = {}
    /\ runnerStarted = {}
    /\ cancelAt = 0
    /\ ackEvents = 0
    /\ sessionSuccess = FALSE

\* the state of a specification that loads no schema
SchemaParked ==
    /\ schemaDoc = <<>>
    /\ schemaPc = "off"
    /\ backendAnswer = [ok |-> FALSE, schema |-> <<>>]
    /\ loadedSchema = [loaded |-> FALSE, schema |-> <<>>]

\* the state of a specification that generates no combinations
GenerateParked ==
    /\ request = <<>>
    /\ combos = <<>>
    /\ genPc = "off"
    /\ genCursor = 0
    /\ headerFile = [markers |-> FALSE, region |-> <<>>]
    /\ tempFile = <<>>
    /\ launched = {}

\* the state of a specification that receives no log events
LogsParked ==
    /\ buildLogs = <<>>
    /\ currentStdout = <<>>
    /\ received = <<>>

BuildInit ==
    /\ RangeParked
    /\ FormParked
    /\ SessionParked
    /\ SchemaParked
    /\ GenerateParked
    /\ LogsParked
    /\ settings = {}
    /\ buildStatus = "idle"
    /\ buildMessages = <<>>
    /\ isCancelling = FALSE
    /\ bpc = [b \in Builds |-> "none"]
    /\ cpc = [c \in Cancels |-> "none"]
    /\ listeners = {}
    /\ timers = {}
    /\ pending = {}
    /\ cancelSeen = {}
    /\ owed = 0
    /\ acks = 0

\* the state of a specification that does not run the build process
BuildParked ==
    /\ settings = {}
    /\ buildStatus = "idle"
    /\ buildMessages = <<>>
    /\ isCancelling = FALSE
    /\ bpc = <<>>
    /\ cpc = <<>>
    /\ listeners = {}
    /\ timers = {}
    /\ pending = {}
    /\ cancelSeen = {}
    /\ owed = 0
    /\ acks = 0

(***************************************************************************)
(* SpecRange: the two functions applied to every bounded input, which is   *)
(* then typed into a range input of the settings form (RangeInput, below). *)
(***************************************************************************)
RangeInit ==
    /\ BuildParked
    /\ FormParked
    /\ SessionParked
    /\ SchemaParked
    /\ GenerateParked
    /\ LogsParked
    /\ rangeStr \in Strings \cup {Null, Undefined}
    /\ min \in 0..MaxBound
    /\ max \in min..MaxBound
    /\ rpc = "input"
    /\ valid = FALSE
    /\ types = <<>>

Validate ==
    /\ rpc = "input"
    /\ valid' = validateNumericRange(rangeStr, min, max)
    /\ rpc' = "validated"
    /\ UNCHANGED <<rangeStr, min, max, types, outsideRange>>

Parse ==
    /\ rpc = "validated"
    /\ types' = parseNumericRange(rangeStr, min, max)
    /\ rpc' = "parsed"
    /\ UNCHANGED <<rangeStr, min, max, valid, outsideRange>>

(***************************************************************************)
(* What the range grammar means, stated without the parser: the tokens of  *)
(* a string are its maximal comma-free pieces.                             *)
(***************************************************************************)
Cuts(s) == {0, Len(s) + 1} \cup {i \in 1..Len(s) : s[i] = ","}

TokensOf(s) ==
    {SubSeq(s, a + 1, b - 1) :
        <<a, b>> \in {p \in Cuts(s) \X Cuts(s) :
                        /\ p[1] < p[2]
                        /\ \A c \in Cuts(s) : ~(p[1] < c /\ c < p[2])}}

AllDigits(t) == Len(t) > 0 /\ \A i \in 1..Len(t) : IsDigit(t[i])

\* the positions k at which t reads <digits>-<digits>
SpanCuts(t) ==
    {k \in 1..Len(t) :
        /\ t[k] = "-"
        /\ AllDigits(SubSeq(t, 1, k - 1))
        /\ AllDigits(SubSeq(t, k + 1, Len(t)))}

TokenInBounds(t, mn, mx) ==
    \/ AllDigits(t) /\ DecVal(t) \in mn..mx
    \/ \E k \in SpanCuts(t) :
          LET a == DecVal(SubSeq(t, 1, k - 1))
              b == DecVal(SubSeq(t, k + 1, Len(t)))
          IN a <= b /\ a \in mn..mx /\ b \in mn..mx

\* the integers a well-formed token covers
TokenCover(t) ==
    IF AllDigits(t) THEN {DecVal(t)}
    ELSE UNION {DecVal(SubSeq(t, 1, k - 1)) .. DecVal(SubSeq(t, k + 1, Len(t))) :
                   k \in SpanCuts(t)}

NoSpaces(s) == SelectSeq(s, LAMBDA c : ~IsSpace(c))

HasSpace(s) == \E i \in 1..Len(s) : IsSpace(s[i])

StrictlyAscending(seq) == \A i \in 1..(Len(seq) - 1) : seq[i] < seq[i + 1]

Elements(seq) == {seq[i] : i \in 1..Len(seq)}

(***************************************************************************)
(* Claims about the range functions, checked under SpecRange.              *)
(***************************************************************************)
\* C1 as stated: when validateNumericRange rejects the input,
\* parseNumericRange returns the empty list, never a partial expansion.
C1_AllOrNothing == (rpc = "parsed" /\ ~valid) => types = <<>>

\* C1 as amended: on rejected input parseNumericRange skips what it cannot
\* expand and returns the ascending, duplicate-free union of what it returns
\* for each comma-separated token alone.
C1_UnionOfTokenExpansions ==
    (rpc = "parsed" /\ ~valid) =>
        /\ StrictlyAscending(types)
        /\ Elements(types) =
             UNION {Elements(parseNumericRange(t, min, max)) : t \in TokensOf(rangeStr)}

C1_Witness ==
    /\ rpc = "parsed"
    /\ ~valid
    /\ types # <<>>
    /\ \E t \in TokensOf(rangeStr) : AllDigits(t) /\ DecVal(t) \notin min..max

\* C2: on a non-blank string without whitespace, validateNumericRange is true
\* exactly when every comma-separated token is an integer in [min,max] or a
\* span a-b with a <= b and both ends in [min,max].
C2_ValidIffEveryTokenInBounds ==
    (rpc # "input" /\ ~IsNullish(rangeStr) /\ ~HasSpace(rangeStr)
        /\ Len(rangeStr) > 0) =>
        (valid <=> \A t \in TokensOf(rangeStr) : TokenInBounds(t, min, max))

C2_Witness ==
    /\ rpc = "validated"
    /\ ~HasSpace(rangeStr)
    /\ valid
    /\ Cardinality(TokensOf(rangeStr)) = 2
    /\ \E t \in TokensOf(rangeStr) : SpanCuts(t) # {}

\* C3: on accepted input parseNumericRange returns, in ascending order,
\* exactly the integers its tokens cover.
C3_ExpansionIsCoveredSet ==
    (rpc = "parsed" /\ valid) =>
        /\ StrictlyAscending(types)
        /\ Elements(types) = UNION {TokenCover(t) : t \in TokensOf(NoSpaces(rangeStr))}

C3_Witness ==
    /\ rpc = "parsed"
    /\ valid
    /\ HasSpace(rangeStr)
    /\ Len(types) >= 2
    /\ \E t \in TokensOf(NoSpaces(rangeStr)) : SpanCuts(t) # {}

\* C4: whatever the input, the list parseNumericRange returns is strictly
\* ascending and lies within [min,max].
C4_AscendingWithinBounds ==
    rpc = "parsed" =>
        /\ StrictlyAscending(types)
        /\ \A i \in 1..Len(types) : min <= types[i] /\ types[i] <= max

C4_Witness ==
    /\ rpc = "parsed"
    /\ ~valid
    /\ types # <<>>
    /\ \E t \in TokensOf(rangeStr) : SpanCuts(t) # {} /\ ~TokenInBounds(t, min, max)

\* s with one space inserted after position i
SpaceInserted(s, i) == SubSeq(s, 1, i) \o <<" ">> \o SubSeq(s, i + 1, Len(s))

\* the strings obtained from s by one space put right before or right after
\* one of its separators
SpacedAround(s, seps) ==
    UNION {{SpaceInserted(s, i - 1), SpaceInserted(s, i)} :
              i \in {k \in 1..Len(s) : s[k] \in seps}}

\* C11: a space inserted (or removed) right before or after a hyphen or a
\* comma changes neither what validateNumericRange returns nor the list
\* parseNumericRange returns.
C11_WhitespaceIgnored ==
    rpc = "parsed" =>
        \A t \in SpacedAround(rangeStr, {"-", ","}) :
            /\ validateNumericRange(t, min, max) = valid
            /\ parseNumericRange(t, min, max) = types

\* String(n) for a non-negative integer
RECURSIVE ToDecimal(_)
ToDecimal(n) ==
    IF n < 10
    THEN <<CHOOSE c \in {"0", "1", "2", "3", "4", "5", "6", "7", "8", "9"} :
               DigitVal(c) = n>>
    ELSE ToDecimal(n \div 10) \o ToDecimal(n % 10)

\* numbers.join(',')
RECURSIVE JoinComma(_)
JoinComma(numbers) ==
    IF numbers = <<>> THEN <<>>
    ELSE IF Len(numbers) = 1 THEN ToDecimal(numbers[1])
    ELSE ToDecimal(numbers[1]) \o <<",">> \o JoinComma(Tail(numbers))

\* C12: for accepted input, the list parseNumericRange returns, joined with
\* commas, is accepted too and expands to the same list.
C12_ReserializedExpansionIsFixed ==
    (rpc = "parsed" /\ valid) =>
        /\ validateNumericRange(JoinComma(types), min, max)
        /\ parseNumericRange(JoinComma(types), min, max) = types

C12_Witness ==
    /\ rpc = "parsed"
    /\ valid
    /\ Len(types) >= 2
    /\ JoinComma(types) # rangeStr
    /\ \E t \in TokensOf(NoSpaces(rangeStr)) : SpanCuts(t) # {}

(***************************************************************************)
(* SpecBuild: the actions of the build process.                            *)
(***************************************************************************)
\* the next unused call number
NextCall(pc, n) == pc[n] = "none" /\ \A m \in DOMAIN pc : m < n => pc[m] # "none"

Awaiting == {b \in Builds : bpc[b] = "awaiting"}

\* resetAfterCancel(), part_004 lines 145-162
ResetAfterCancel ==
    IF ~isCancelling
    THEN UNCHANGED <<buildStatus, isCancelling, buildMessages, acks>>
    ELSE /\ buildStatus' = "idle"
         /\ isCancelling' = FALSE
         /\ buildMessages' = <<CancelledMsg>>
         /\ acks' = acks + 1

\* unlisten() of the listener l: events on their way to it are dropped
Unlisten(l) ==
    /\ listeners' = listeners \ {l}
    /\ pending' = pending \ {l}

\* App.vue selectProjectDir .. selectCubeIdeExe: a path is picked
SelectPath(f) ==
    /\ f \notin settings
    /\ settings' = settings \cup {f}
    /\ UNCHANGED <<buildStatus, buildMessages, isCancelling, bpc, cpc, listeners,
                   timers, pending, cancelSeen, owed, acks, outsideBuild>>

\* BuildControls.vue isDisabled (and the Ctrl+B test)
BuildDisabled == buildStatus = "building" \/ isCancelling

\* the Build button: build() up to its await of build_project
BuildRequest(b) ==
    /\ ~BuildDisabled
    /\ NextCall(bpc, b)
    /\ IF settings # RequiredFields
       THEN /\ buildStatus' = "error"
            /\ buildMessages' = Append(buildMessages, MissingMsg(RequiredFields \ settings))
            /\ bpc' = [bpc EXCEPT ![b] = "done"]
       ELSE /\ buildStatus' = "building"
            /\ buildMessages' = <<>>
            /\ bpc' = [bpc EXCEPT ![b] = "awaiting"]
    /\ UNCHANGED <<settings, isCancelling, cpc, listeners, timers, pending,
                   cancelSeen, owed, acks, outsideBuild>>

\* build_project resolves with r: the rest of the try block of build()
BuildResolved(b, r) ==
    /\ bpc[b] = "awaiting"
    /\ SaysCancelled(r) => b \in cancelSeen
    /\ bpc' = [bpc EXCEPT ![b] = "done"]
    /\ IF SaysCancelled(r)
       THEN /\ buildStatus' = "idle"
            /\ buildMessages' = Append(buildMessages, CancelledMsg)
            /\ isCancelling' = FALSE
            /\ acks' = acks + 1
       ELSE /\ buildStatus' = (IF r.success THEN "success" ELSE "error")
            /\ buildMessages' = Append(buildMessages, ResultMsg(r))
            /\ UNCHANGED <<isCancelling, acks>>
    /\ UNCHANGED <<settings, cpc, listeners, timers, pending, cancelSeen, owed,
                   outsideBuild>>

\* build_project rejects: the catch block of build()
BuildRejected(b) ==
    /\ bpc[b] = "awaiting"
    /\ bpc' = [bpc EXCEPT ![b] = "done"]
    /\ buildStatus' = "error"
    /\ buildMessages' = Append(buildMessages, BuildErrorMsg)
    /\ UNCHANGED <<settings, isCancelling, cpc, listeners, timers, pending,
                   cancelSeen, owed, acks, outsideBuild>>

CancelAllowed_NoFlagTest == buildStatus = "building"

\* the test of handleCancel(), line 104
CancelAllowed == ~isCancelling /\ buildStatus = "building"

\* cancelBuild() of the composable is called: handleCancel() up to its
\* await of listen(), or nothing at all
CancelRequest(c) ==
    /\ NextCall(cpc, c)
    /\ IF CancelAllowed
       THEN /\ isCancelling' = TRUE
            /\ cpc' = [cpc EXCEPT ![c] = "listening"]
       ELSE /\ cpc' = [cpc EXCEPT ![c] = "ignored"]
            /\ UNCHANGED isCancelling
    /\ UNCHANGED <<settings, buildStatus, buildMessages, bpc, listeners, timers,
                   pending, cancelSeen, owed, acks, outsideBuild>>

\* listen() resolves: the first listener is registered and cancel_build is
\* invoked
ListenRegistered(c) ==
    /\ cpc[c] = "listening"
    /\ cpc' = [cpc EXCEPT ![c] = "invoking"]
    /\ listeners' = listeners \cup {<<c, "reset">>}
    /\ UNCHANGED <<settings, buildStatus, buildMessages, isCancelling, bpc, timers,
                   pending, cancelSeen, owed, acks, outsideBuild>>

\* the back end carries out cancel_build: the running build is told to stop
\* and, if there is one, a build-cancelled event will be emitted
BackendCancels(c) ==
    /\ cpc[c] = "invoking"
    /\ cpc' = [cpc EXCEPT ![c] = "answered"]
    /\ cancelSeen' = cancelSeen \cup Awaiting
    /\ owed' = IF Awaiting # {} THEN owed + 1 ELSE owed
    /\ UNCHANGED <<settings, buildStatus, buildMessages, isCancelling, bpc,
                   listeners, timers, pending, acks, outsideBuild>>

CancelBuildResolved_NoTimer(c) ==
    /\ cpc[c] = "answered"
    /\ cpc' = [cpc EXCEPT ![c] = "done"]
    /\ listeners' = listeners \cup {<<c, "clear">>}
    /\ UNCHANGED <<settings, buildStatus, buildMessages, isCancelling, bpc, pending,
                   cancelSeen, owed, acks, timers, outsideBuild>>

\* cancel_build resolves: the fallback timer is armed and the second
\* listener, which clears it, is registered
CancelBuildResolved(c) ==
    /\ cpc[c] = "answered"
    /\ cpc' = [cpc EXCEPT ![c] = "done"]
    /\ timers' = timers \cup {c}
    /\ listeners' = listeners \cup {<<c, "clear">>}
    /\ UNCHANGED <<settings, buildStatus, buildMessages, isCancelling, bpc, pending,
                   cancelSeen, owed, acks, outsideBuild>>

\* cancel_build rejects: the catch block of handleCancel()
CancelBuildRejected(c) ==
    /\ cpc[c] = "invoking"
    /\ cpc' = [cpc EXCEPT ![c] = "done"]
    /\ ResetAfterCancel
    /\ UNCHANGED <<settings, bpc, listeners, timers, pending, cancelSeen, owed,
                   outsideBuild>>

\* the 1500 ms fallback timer of call c expires
TimerFires(c) ==
    /\ c \in timers
    /\ timers' = timers \ {c}
    /\ IF isCancelling
       THEN ResetAfterCancel /\ Unlisten(<<c, "reset">>)
       ELSE UNCHANGED <<buildStatus, isCancelling, buildMessages, acks, listeners,
                        pending>>
    /\ UNCHANGED <<settings, bpc, cpc, cancelSeen, owed, outsideBuild>>

\* the back end emits build-cancelled to the listeners registered now
EmitCancelled ==
    /\ owed > 0
    /\ owed' = owed - 1
    /\ pending' = pending \cup listeners
    /\ UNCHANGED <<settings, buildStatus, buildMessages, isCancelling, bpc, cpc,
                   listeners, timers, cancelSeen, acks, outsideBuild>>

\* the event reaches the first listener of call c
DeliverReset(c) ==
    /\ <<c, "reset">> \in pending
    /\ ResetAfterCancel
    /\ Unlisten(<<c, "reset">>)
    /\ UNCHANGED <<settings, bpc, cpc, timers, cancelSeen, owed, outsideBuild>>

\* the event reaches the second listener of call c: clearTimeout(timeoutId)
DeliverClear(c) ==
    /\ <<c, "clear">> \in pending
    /\ pending' = pending \ {<<c, "clear">>}
    /\ timers' = timers \ {c}
    /\ UNCHANGED <<settings, buildStatus, buildMessages, isCancelling, bpc, cpc,
                   listeners, cancelSeen, owed, acks, outsideBuild>>

BuildNext ==
    \/ \E f \in RequiredFields : SelectPath(f)
    \/ \E b \in Builds : BuildRequest(b)
    \/ \E b \in Builds, r \in BuildResults : BuildResolved(b, r)
    \/ \E b \in Builds : BuildRejected(b)
    \/ \E c \in Cancels : CancelRequest(c)
    \/ \E c \in Cancels : ListenRegistered(c)
    \/ \E c \in Cancels : BackendCancels(c)
    \/ \E c \in Cancels : CancelBuildResolved(c)
    \/ \E c \in Cancels : CancelBuildRejected(c)
    \/ \E c \in Cancels : TimerFires(c)
    \/ EmitCancelled
    \/ \E c \in Cancels : DeliverReset(c)
    \/ \E c \in Cancels : DeliverClear(c)

SpecBuild == BuildInit /\ [][BuildNext]_vars

(***************************************************************************)
(* Claims about the build process, checked under SpecBuild.                *)
(***************************************************************************)
\* the handleCancel() calls that passed the test of line 104
AcceptedCancels == {c \in Cancels : cpc[c] \notin {"none", "ignored"}}

\* the last build result was received and recorded as success or error
NaturallyCompleted ==
    /\ buildStatus \in {"success", "error"}
    /\ buildMessages # <<>>
    /\ buildMessages[Len(buildMessages)] \in
          {ResultMsg(r) : r \in {x \in BuildResults : ~SaysCancelled(x)}}

\* C5: at most one build_project invocation is outstanding at any time; a
\* build request made while an earlier call has not returned is not forwarded.
C5_AtMostOneBuildOutstanding == Cardinality(Awaiting) <= 1

\* C6: a cancel request made while buildStatus is not 'building' or while
\* isCancelling is true starts nothing (no listen, no cancel_build, no timer)
\* and changes no state.
C6_IgnoredCancelIsNoOp ==
    [][\A c \in Cancels :
          (cpc[c] = "none" /\ cpc'[c] # "none"
             /\ (buildStatus # "building" \/ isCancelling))
          => /\ cpc'[c] = "ignored"
             /\ UNCHANGED <<settings, buildStatus, buildMessages, isCancelling, bpc,
                            listeners, timers, pending, cancelSeen, owed, acks>>]_vars

C6_Witness ==
    /\ cpc[1] = "listening"
    /\ cpc[2] = "ignored"
    /\ buildStatus = "building"
    /\ isCancelling

\* C7: the cancellation outcome (reset to idle and the 'Build cancelled by
\* user' message) is applied exactly once per accepted cancel request.
C7_OneAckPerCancel == acks <= Cardinality(AcceptedCancels)

\* C8: once a build has completed naturally, neither a build-cancelled event
\* nor a fallback timer of an earlier cancel request changes the recorded
\* status or messages.
C8_CompletedStaysCompleted ==
    [][(NaturallyCompleted /\ \E c \in Cancels : TimerFires(c) \/ DeliverReset(c))
          => (buildStatus' = buildStatus /\ buildMessages' = buildMessages)]_vars

\* C26: a build request made while one of the four paths is unset is
\* rejected at once: build_project is not invoked, buildStatus becomes
\* 'error', one error message listing exactly the missing fields is
\* appended, and the build logs and the build configuration stay as they
\* are.
C26_MissingPathRejected ==
    [][\A b \in Builds :
          (BuildRequest(b) /\ settings # RequiredFields)
          => /\ bpc'[b] = "done"
             /\ Awaiting' = Awaiting
             /\ buildStatus' = "error"
             /\ buildMessages' =
                   Append(buildMessages,
                          [type |-> "error", text |-> "Missing required fields",
                           fields |-> RequiredFields \ settings])
             /\ UNCHANGED <<buildLogs, buildConfig>>]_vars

\* two paths are missing and the message lists the two
C26_Witness ==
    /\ settings = {"projectPath", "cubeIdeExePath"}
    /\ bpc[1] = "done"
    /\ buildStatus = "error"
    /\ Len(buildMessages) = 1
    /\ buildMessages[1].fields = {"buildDir", "workspacePath"}

\* C27: when the build_project call of a build request settles, the build
\* leaves 'building' with the outcome of the result: a resolved result that
\* is not a cancellation sets buildStatus to 'success' exactly when its
\* success flag is true, and to 'error' otherwise, and appends one message
\* with the result summary; a rejected call sets 'error' and appends one
\* error message.
C27_StatusMatchesResult ==
    [][\A b \in Builds :
          /\ \A r \in BuildResults :
                (BuildResolved(b, r) /\ ~SaysCancelled(r))
                => /\ buildStatus' = "success" <=> r.success
                   /\ buildStatus' = "error" <=> ~r.success
                   /\ Len(buildMessages') = Len(buildMessages) + 1
                   /\ SubSeq(buildMessages', 1, Len(buildMessages)) = buildMessages
                   /\ buildMessages'[Len(buildMessages')].text = r.result
                   /\ buildMessages'[Len(buildMessages')].type = buildStatus'
          /\ BuildRejected(b)
                => /\ buildStatus' = "error"
                   /\ Len(buildMessages') = Len(buildMessages) + 1
                   /\ SubSeq(buildMessages', 1, Len(buildMessages)) = buildMessages
                   /\ buildMessages'[Len(buildMessages')].type = "error"]_vars

\* a build failed; its summary is the only message
C27_Witness ==
    /\ bpc = [b \in Builds |-> IF b = 1 THEN "done" ELSE "none"]
    /\ cpc = [c \in Cancels |-> "none"]
    /\ buildStatus = "error"
    /\ buildMessages = <<[type |-> "error", text |-> "Build failed", fields |-> {}]>>

(***************************************************************************)
(* SpecBuildLive: the build process, with the four paths chosen, under     *)
(* the scheduling the run time gives.  A                                   *)
(* listen() call resolves, the back end answers cancel_build (it resolves  *)
(* or rejects), an armed timer that is not cleared expires, and an event  *)
(* that was emitted reaches the listeners it was emitted to.  Nothing is   *)
(* assumed about build_project settling or about the build-cancelled       *)
(* event being emitted.                                                    *)
(***************************************************************************)
CancelFairness ==
    \A c \in Cancels :
        /\ WF_vars(ListenRegistered(c))
        /\ WF_vars(BackendCancels(c) \/ CancelBuildRejected(c))
        /\ WF_vars(CancelBuildResolved(c))
        /\ WF_vars(TimerFires(c))
        /\ WF_vars(DeliverReset(c))
        /\ WF_vars(DeliverClear(c))

\* the four paths are chosen (App.vue restores them from localStorage)
BuildLiveInit ==
    /\ RangeParked
    /\ FormParked
    /\ SessionParked
    /\ SchemaParked
    /\ GenerateParked
    /\ LogsParked
    /\ settings = RequiredFields
    /\ buildStatus = "idle"
    /\ buildMessages = <<>>
    /\ isCancelling = FALSE
    /\ bpc = [b \in Builds |-> "none"]
    /\ cpc = [c \in Cancels |-> "none"]
    /\ listeners = {}
    /\ timers = {}
    /\ pending = {}
    /\ cancelSeen = {}
    /\ owed = 0
    /\ acks = 0

BuildLiveNext ==
    \/ \E b \in Builds : BuildRequest(b)
    \/ \E b \in Builds, r \in BuildResults : BuildResolved(b, r)
    \/ \E b \in Builds : BuildRejected(b)
    \/ \E c \in Cancels : CancelRequest(c)
    \/ \E c \in Cancels : ListenRegistered(c)
    \/ \E c \in Cancels : BackendCancels(c)
    \/ \E c \in Cancels : CancelBuildResolved(c)
    \/ \E c \in Cancels : CancelBuildRejected(c)
    \/ \E c \in Cancels : TimerFires(c)
    \/ EmitCancelled
    \/ \E c \in Cancels : DeliverReset(c)
    \/ \E c \in Cancels : DeliverClear(c)

SpecBuildLive == BuildLiveInit /\ [][BuildLiveNext]_vars /\ CancelFairness

\* C21: every accepted cancel request eventually ends: isCancelling, which
\* is true from the acceptance of a request on, returns to false and the
\* build controls are enabled again, given that the back end answers
\* cancel_build, also when no build-cancelled event arrives and when
\* cancel_build fails.
C21_AcceptedCancelEnds == isCancelling ~> ~BuildDisabled

\* cancel_build resolved, no build-cancelled event was emitted, and the
\* fallback timer ended the cancellation while build_project is outstanding
C21_Witness ==
    /\ cpc = [c \in Cancels |-> IF c = 1 THEN "done" ELSE "none"]
    /\ owed = 1
    /\ pending = {}
    /\ timers = {}
    /\ bpc[1] = "awaiting"
    /\ acks = 1
    /\ ~BuildDisabled

\* C22: the fallback timer armed by one cancel request affects only that
\* request: once a later cancel request has been accepted (so the timer's
\* own cancellation was acknowledged before), the timer's expiry changes
\* neither buildStatus nor buildMessages nor isCancelling.
C22_TimerAffectsOnlyItsRequest ==
    [][\A c \in Cancels :
          (TimerFires(c) /\ \E d \in AcceptedCancels : d > c)
          => UNCHANGED <<buildStatus, buildMessages, isCancelling>>]_vars

\* the listeners registered by the handleCancel() call c
ListenersOf(c) == {l \in listeners : l[1] = c}

\* the handleCancel() call c has run to its end and its cancellation is over
CancellationCompleted(c) ==
    cpc[c] = "done" /\ c \notin timers /\ ~isCancelling

\* C24: at every moment at most one build-cancelled listener is registered,
\* and once a cancellation has completed none of the listeners it
\* registered remains.
C24_OneListenerAtATime ==
    /\ Cardinality(listeners) <= 1
    /\ \A c \in Cancels : CancellationCompleted(c) => ListenersOf(c) = {}

\* the second half of C24 alone: no listener outlives its cancellation
C24_NoListenerLeftBehind ==
    \A c \in Cancels : CancellationCompleted(c) => ListenersOf(c) = {}

(***************************************************************************)
(* SpecLegacy: src/composables/useBuildProcess.ts, the composable that     *)
(* sets the 'cancelled' status when cancel_build returns.  Its build()     *)
(* differs from the one above only in what follows the await (no test for  *)
(* a cancelled result); its handleCancel() has no listener and no timer.   *)
(***************************************************************************)
\* build_project resolves with r: lines 70-76
LegacyBuildResolved(b, r) ==
    /\ bpc[b] = "awaiting"
    /\ SaysCancelled(r) => b \in cancelSeen
    /\ bpc' = [bpc EXCEPT ![b] = "done"]
    /\ buildStatus' = (IF r.success THEN "success" ELSE "error")
    /\ buildMessages' = Append(buildMessages, ResultMsg(r))
    /\ UNCHANGED <<settings, isCancelling, cpc, listeners, timers, pending,
                   cancelSeen, owed, acks, outsideBuild>>

\* handleCancel() up to its await of cancel_build, or nothing at all
LegacyCancelRequest(c) ==
    /\ NextCall(cpc, c)
    /\ IF CancelAllowed
       THEN /\ isCancelling' = TRUE
            /\ cpc' = [cpc EXCEPT ![c] = "invoking"]
       ELSE /\ cpc' = [cpc EXCEPT ![c] = "ignored"]
            /\ UNCHANGED isCancelling
    /\ UNCHANGED <<settings, buildStatus, buildMessages, bpc, listeners, timers,
                   pending, cancelSeen, owed, acks, outsideBuild>>

\* the back end carries out cancel_build: the running build is told to stop
LegacyBackendCancels(c) ==
    /\ cpc[c] = "invoking"
    /\ cpc' = [cpc EXCEPT ![c] = "answered"]
    /\ cancelSeen' = cancelSeen \cup Awaiting
    /\ UNCHANGED <<settings, buildStatus, buildMessages, isCancelling, bpc,
                   listeners, timers, pending, owed, acks, outsideBuild>>

\* cancel_build resolves: lines 90-91
LegacyCancelResolved(c) ==
    /\ cpc[c] = "answered"
    /\ cpc' = [cpc EXCEPT ![c] = "done"]
    /\ buildStatus' = "cancelled"
    /\ isCancelling' = FALSE
    /\ UNCHANGED <<settings, buildMessages, bpc, listeners, timers, pending,
                   cancelSeen, owed, acks, outsideBuild>>

\* cancel_build rejects: handleCancel() has no catch, the rejection leaves
\* the function and isCancelling stays true
LegacyCancelRejected(c) ==
    /\ cpc[c] = "invoking"
    /\ cpc' = [cpc EXCEPT ![c] = "done"]
    /\ UNCHANGED <<settings, buildStatus, buildMessages, isCancelling, bpc,
                   listeners, timers, pending, cancelSeen, owed, acks, outsideBuild>>

LegacyNext ==
    \/ \E f \in RequiredFields : SelectPath(f)
    \/ \E b \in Builds : BuildRequest(b)
    \/ \E b \in Builds, r \in BuildResults : LegacyBuildResolved(b, r)
    \/ \E b \in Builds : BuildRejected(b)
    \/ \E c \in Cancels : LegacyCancelRequest(c)
    \/ \E c \in Cancels : LegacyBackendCancels(c)
    \/ \E c \in Cancels : LegacyCancelResolved(c)
    \/ \E c \in Cancels : LegacyCancelRejected(c)

SpecLegacy == BuildInit /\ [][LegacyNext]_vars

\* C23: in the composable that sets 'cancelled' when cancel_build returns,
\* the status of a cancelled build ends as 'cancelled' whichever of the
\* build_project result and the cancel_build response arrives first: the
\* result of a build the back end was told to cancel, arriving after the
\* status was set to 'cancelled', does not replace it by 'success' or
\* 'error'.
C23_LateResultKeepsCancelled ==
    [][\A b \in cancelSeen :
          (buildStatus = "cancelled" /\ bpc[b] = "awaiting" /\ bpc'[b] = "done")
          => buildStatus' = "cancelled"]_vars

\* the other order of C23: a cancel_build response that arrives after the
\* build result sets 'cancelled'
C23_LateResponseSetsCancelled ==
    [][\A c \in Cancels :
          (cpc[c] = "answered" /\ cpc'[c] = "done") => buildStatus' = "cancelled"]_vars

(***************************************************************************)
(* SpecForm: the checkbox groups of the settings form.  BuildSettings.vue  *)
(* is bound to buildConfig by v-model (App.vue); AdditionalOptions.vue     *)
(* has no parent in the sources and is bound here as v-model:value.        *)
(* buildConfig is loaded from localStorage (App.vue, useLocalStorage), so  *)
(* the form starts from any stored selection.                              *)
(***************************************************************************)
MaxMinSelected == 2

\* the ids of the checkbox_group settings of the schema
GroupIds == {"languages", "features"}

\* the option values of a checkbox_group
Options == {"en", "kz"}

\* the arrays of distinct option values
Selections ==
    {s \in UNION {[1..n -> Options] : n \in 0..Cardinality(Options)} :
        \A i, j \in 1..Len(s) : i # j => s[i] # s[j]}

\* {}
EmptyObject == [x \in {} |-> <<>>]

\* obj[key] || fallback
Lookup(obj, key, fallback) == IF key \in DOMAIN obj THEN obj[key] ELSE fallback

\* { ...obj, [key]: value }
With(obj, key, value) ==
    [x \in DOMAIN obj \cup {key} |-> IF x = key THEN value ELSE obj[x]]

\* array.filter(v => v !== value)
Without(array, value) == SelectSeq(array, LAMBDA v : v # value)

\* ''
NoError == <<>>

\* `At least ${min_selected} option(s) must be selected`
MinSelectedError(k) == <<"At least ", k, " option(s) must be selected">>

\* the settings objects a stored configuration can hold
StoredSettings == UNION {[D -> Selections] : D \in SUBSET GroupIds}

FormInit ==
    /\ RangeParked
    /\ BuildParked
    /\ SessionParked
    /\ SchemaParked
    /\ GenerateParked
    /\ LogsParked
    /\ minSelected \in [GroupIds -> 0..MaxMinSelected]
    /\ buildConfig \in {[settings |-> f] : f \in StoredSettings}
    /\ localSettings = buildConfig.settings
    /\ validationErrors = EmptyObject
    /\ rangeInputs = EmptyObject
    /\ optMin \in 0..MaxMinSelected
    /\ optValue = <<>>
    /\ validationError = NoError

\* newValues of updateCheckboxGroup
NewValues(currentValues, value, checked) ==
    IF checked /\ ~Contains(currentValues, value)
    THEN Append(currentValues, value)
    ELSE IF ~checked THEN Without(currentValues, value)
    ELSE currentValues

BelowMinimum_OffByOne(minSel, newValues) ==
    minSel # 0 /\ Len(newValues) < minSel - 1

\* setting.min_selected && newValues.length < setting.min_selected
BelowMinimum(minSel, newValues) ==
    minSel # 0 /\ Len(newValues) < minSel

\* update:modelValue: App.vue assigns buildConfig, and the two watchers of
\* modelValue copy its settings and empty validationErrors
ModelValueUpdated(newConfig) ==
    /\ buildConfig' = newConfig
    /\ localSettings' = newConfig.settings
    /\ validationErrors' = EmptyObject

\* updateValue(`settings.${settingKey}`, value)
updateValue(settingKey, value) ==
    ModelValueUpdated([buildConfig EXCEPT
        !.settings = With(buildConfig.settings, settingKey, value)])

\* the change event of the checkbox `value` of group id, now `checked`; the
\* event target is always the input element
updateCheckboxGroup(id, value, checked) ==
    LET currentValues == Lookup(localSettings, id, <<>>)
        newValues == NewValues(currentValues, value, checked)
    IN  /\ IF BelowMinimum(minSelected[id], newValues)
           THEN /\ validationErrors' =
                      With(validationErrors, id, MinSelectedError(minSelected[id]))
                /\ UNCHANGED <<buildConfig, localSettings>>
           ELSE updateValue(id, newValues)
        /\ UNCHANGED <<minSelected, rangeInputs, optMin, optValue, validationError,
                       outsideForm>>

resetSettings ==
    /\ ModelValueUpdated([buildConfig EXCEPT !.settings = EmptyObject])
    /\ UNCHANGED <<minSelected, rangeInputs, optMin, optValue, validationError,
                   outsideForm>>

\* AdditionalOptions.vue
updateOptions(opt) ==
    LET newOptions == IF Contains(optValue, opt)
                      THEN Without(optValue, opt)
                      ELSE Append(optValue, opt)
    IN  /\ IF BelowMinimum(optMin, newOptions)
           THEN /\ validationError' = MinSelectedError(optMin)
                /\ UNCHANGED optValue
           ELSE /\ validationError' = NoError
                /\ optValue' = newOptions
        /\ UNCHANGED <<minSelected, buildConfig, localSettings, validationErrors,
                       rangeInputs, optMin, outsideForm>>

FormNext ==
    \/ \E id \in GroupIds, value \in Options, checked \in BOOLEAN :
          updateCheckboxGroup(id, value, checked)
    \/ resetSettings
    \/ \E opt \in Options : updateOptions(opt)

SpecForm == FormInit /\ [][FormNext]_vars

(***************************************************************************)
(* The range inputs of the settings form, BuildSettings.vue onRangeInput.  *)
(* A range setting holds the parsed list; no handler stores a string under *)
(* a range id, so the watcher's initialisation of rangeInputs from a       *)
(* string-valued setting never applies.                                    *)
(***************************************************************************)
\* the ids of the range settings of the schema
RangeIds == {"device_type"}

\* setting.validation: { min, max }
Validation(mn, mx) == [defined |-> TRUE, min |-> mn, max |-> mx]

\* `Invalid range. Use format like "11, 23-26, 30" within [${min}, ${max}]`
InvalidRangeError(validation) ==
    <<"Invalid range. Use format like within ", validation.min, validation.max>>

onRangeInput_ClearsOnInvalid(id, validation, value) ==
    /\ rangeInputs' = With(rangeInputs, id, value)
    /\ IF IsBlank(value)
       THEN updateValue(id, <<>>)
       ELSE IF ~validation.defined
       THEN UNCHANGED <<buildConfig, localSettings, validationErrors>>
       ELSE IF validateNumericRange(value, validation.min, validation.max)
       THEN updateValue(id, parseNumericRange(value, validation.min, validation.max))
       ELSE /\ validationErrors' =
                  With(validationErrors, id, InvalidRangeError(validation))
            /\ buildConfig' = [buildConfig EXCEPT
                                 !.settings = With(buildConfig.settings, id, <<>>)]
            /\ localSettings' = With(localSettings, id, <<>>)

\* onRangeInput(setting, event) for the range setting id, the input element
\* holding value
onRangeInput(id, validation, value) ==
    /\ rangeInputs' = With(rangeInputs, id, value)
    /\ IF IsBlank(value)
       THEN updateValue(id, <<>>)
       ELSE IF ~validation.defined
       THEN UNCHANGED <<buildConfig, localSettings, validationErrors>>
       ELSE IF validateNumericRange(value, validation.min, validation.max)
       THEN updateValue(id, parseNumericRange(value, validation.min, validation.max))
       ELSE /\ validationErrors' =
                  With(validationErrors, id, InvalidRangeError(validation))
            /\ UNCHANGED <<buildConfig, localSettings>>

\* the string is typed into the input of a range setting bounded by
\* [min, max]; target.value is always a string
RangeInput ==
    /\ rpc = "parsed"
    /\ ~IsNullish(rangeStr)
    /\ onRangeInput("device_type", Validation(min, max), rangeStr)
    /\ rpc' = "stored"
    /\ UNCHANGED <<rangeStr, min, max, valid, types, minSelected, optMin, optValue,
                   validationError, buildVars, sessionVars, schemaVars, genVars,
                   logVars>>

RangeNext == Validate \/ Parse \/ RangeInput

SpecRange == RangeInit /\ [][RangeNext]_vars

\* null, undefined, empty or made of whitespace only
BlankInput(s) == IsNullish(s) \/ \A i \in 1..Len(s) : s[i] = " "

\* C13: an empty, whitespace-only, null or undefined range input is valid
\* and expands to the empty list for every bound, and typed into the form it
\* stores the empty list for the setting and leaves no validation error.
C13_BlankIsNoSelection ==
    BlankInput(rangeStr) =>
        /\ rpc # "input" => valid
        /\ rpc \in {"parsed", "stored"} => types = <<>>
        /\ rpc = "stored" =>
              /\ "device_type" \in DOMAIN buildConfig.settings
              /\ buildConfig.settings["device_type"] = <<>>
              /\ Lookup(validationErrors, "device_type", NoError) = NoError

C13_Witness ==
    /\ rpc = "stored"
    /\ Len(rangeStr) = 2
    /\ BlankInput(rangeStr)
    /\ rangeInputs["device_type"] = rangeStr

(***************************************************************************)
(* Claims about the settings form, checked under SpecForm.                 *)
(***************************************************************************)
\* the selection a toggle asks for: the option added when checked, removed
\* when unchecked
ToggledSet(selection, value, checked) ==
    IF checked THEN Elements(selection) \cup {value}
    ELSE Elements(selection) \ {value}

\* the selection a click asks for: the option's membership flipped
FlippedSet(selection, opt) ==
    IF opt \in Elements(selection) THEN Elements(selection) \ {opt}
    ELSE Elements(selection) \cup {opt}

\* C10: for a checkbox_group with min_selected = k, a toggle whose resulting
\* selection has fewer than k options records a validation error for that
\* setting and leaves the selection held in the build configuration
\* unchanged; a toggle whose result has at least k options updates the
\* selection and clears the error.
C10_MinSelectedEnforced ==
    [][/\ \A id \in GroupIds, value \in Options, checked \in BOOLEAN :
            updateCheckboxGroup(id, value, checked) =>
               LET asked == ToggledSet(Lookup(buildConfig.settings, id, <<>>),
                                       value, checked)
               IN  IF Cardinality(asked) < minSelected[id]
                   THEN /\ Lookup(validationErrors', id, NoError) # NoError
                        /\ buildConfig' = buildConfig
                   ELSE /\ Elements(Lookup(buildConfig'.settings, id, <<>>)) = asked
                        /\ Lookup(validationErrors', id, NoError) = NoError
       /\ \A opt \in Options :
            updateOptions(opt) =>
               LET asked == FlippedSet(optValue, opt)
               IN  IF Cardinality(asked) < optMin
                   THEN /\ validationError' # NoError
                        /\ optValue' = optValue
                   ELSE /\ Elements(optValue') = asked
                        /\ validationError' = NoError]_vars

\* a rejected uncheck in BuildSettings (two of two selected, k = 2) and, in
\* AdditionalOptions, an accepted check followed by a rejected uncheck
C10_Witness ==
    /\ minSelected["languages"] = 2
    /\ Len(Lookup(buildConfig.settings, "languages", <<>>)) = 2
    /\ Lookup(validationErrors, "languages", NoError) = MinSelectedError(2)
    /\ optMin = 1
    /\ Len(optValue) = 1
    /\ validationError = MinSelectedError(1)

\* some toggle of a checkbox of group id changes the stored selection
SomeToggleApplies(id) ==
    ENABLED (\E value \in Options, checked \in BOOLEAN :
                /\ updateCheckboxGroup(id, value, checked)
                /\ buildConfig' # buildConfig)

\* some toggle of AdditionalOptions.vue changes the value
SomeOptionToggleApplies ==
    ENABLED (\E opt \in Options : updateOptions(opt) /\ optValue' # optValue)

\* C25: the minimum-selection check never keeps the user from building a
\* valid selection: from the empty selection of a checkbox_group with
\* min_selected = k (k >= 2 included, k at most the number of options) the
\* selections of at least k options are reachable by single toggles, so
\* some toggle of the empty selection has to be applied.
C25_ValidSelectionReachable ==
    /\ \A id \in GroupIds :
          (Lookup(buildConfig.settings, id, <<>>) = <<>>
             /\ minSelected[id] \in 1..Cardinality(Options))
          => SomeToggleApplies(id)
    /\ (optValue = <<>> /\ optMin \in 1..Cardinality(Options))
          => SomeOptionToggleApplies

\* the case k = 1 of C25: with min_selected = 1 the empty selection can grow
C25_MinimumOneReachable ==
    /\ \A id \in GroupIds :
          (Lookup(buildConfig.settings, id, <<>>) = <<>> /\ minSelected[id] = 1)
          => SomeToggleApplies(id)
    /\ (optValue = <<>> /\ optMin = 1) => SomeOptionToggleApplies

(***************************************************************************)
(* SpecSession: one build session of the build_project command.  The loop  *)
(* runs in the Rust back end, of which the sources hold only the callers   *)
(* (services/buildService: executeBuild, cancelBuild); it is modelled from *)
(* the design document: Cancellation Controller (4.5), Session Aggregator  *)
(* (4.6), concurrency model (5).  A combination whose Process Runner       *)
(* returns after cancellation was requested is classified cancelled.       *)
(***************************************************************************)
MaxCombos == 4

\* the classifications of a process that ran to its own exit
Outcomes == {"success", "failure"}

SessionInit ==
    /\ RangeParked
    /\ BuildParked
    /\ FormParked
    /\ SchemaParked
    /\ GenerateParked
    /\ LogsParked
    /\ ctl = "Idle"
    /\ nCombos = 0
    /\ cursor = 0
    /\ phase = "none"
    /\ results = <<>>
    /\ headerStarted = {}
    /\ runnerStarted = {}
    /\ cancelAt = 0
    /\ ackEvents = 0
    /\ sessionSuccess = FALSE

AllSuccess_CountsOnlyFailures(recorded) ==
    \A i \in 1..Len(recorded) : recorded[i] # "failure"

\* overall success: the logical AND of the recorded successes
AllSuccess(recorded) == \A i \in 1..Len(recorded) : recorded[i] = "success"

\* "start build" with a request that generates n combinations
StartBuild(n) ==
    /\ ctl = "Idle"
    /\ phase = "none"
    /\ ctl' = "Running"
    /\ nCombos' = n
    /\ cursor' = 1
    /\ phase' = "boundary"
    /\ results' = [i \in 1..n |-> "pending"]
    /\ UNCHANGED <<headerStarted, runnerStarted, cancelAt, ackEvents,
                   sessionSuccess,
                   outsideSession>>

CancelObserved_RequestedOnly == ctl = "CancelRequested"

\* the check the aggregator makes before starting a combination
CancelObserved == ctl \in {"CancelRequested", "Cancelled"}

\* cancellation seen at a combination boundary: the combination at the
\* cursor and all remaining ones are marked skipped and the loop stops
SkipRemaining ==
    /\ phase = "boundary"
    /\ cursor <= nCombos
    /\ CancelObserved
    /\ results' = [i \in 1..nCombos |->
                      IF i >= cursor THEN "skipped" ELSE results[i]]
    /\ phase' = "stopped"
    /\ sessionSuccess' = AllSuccess(results')
    /\ UNCHANGED <<ctl, nCombos, cursor, headerStarted, runnerStarted, cancelAt,
                   ackEvents, outsideSession>>

\* the Header Emitter is invoked for the combination at the cursor
EmitHeader ==
    /\ phase = "boundary"
    /\ cursor <= nCombos
    /\ ~CancelObserved
    /\ headerStarted' = headerStarted \cup {cursor}
    /\ phase' = "header"
    /\ UNCHANGED <<ctl, nCombos, cursor, results, runnerStarted, cancelAt,
                   ackEvents, sessionSuccess,
                   outsideSession>>

\* the Process Runner is invoked and its child process spawned
SpawnProcess ==
    /\ phase = "header"
    /\ runnerStarted' = runnerStarted \cup {cursor}
    /\ phase' = "running"
    /\ UNCHANGED <<ctl, nCombos, cursor, results, headerStarted, cancelAt,
                   ackEvents, sessionSuccess,
                   outsideSession>>

\* a header format error or a process launch error aborts the session
FatalError ==
    /\ phase = "header"
    /\ phase' = "aborted"
    /\ ctl' = IF ctl = "Running" THEN "Idle" ELSE ctl
    /\ sessionSuccess' = AllSuccess(results)
    /\ UNCHANGED <<nCombos, cursor, results, headerStarted, runnerStarted,
                   cancelAt, ackEvents, outsideSession>>

ProcessExit_StopsOnFailure(outcome) ==
    /\ phase = "running"
    /\ results' = [results EXCEPT
                      ![cursor] = IF CancelObserved THEN "cancelled" ELSE outcome]
    /\ cursor' = cursor + 1
    /\ phase' = IF outcome = "failure" THEN "stopped" ELSE "boundary"
    /\ UNCHANGED <<ctl, nCombos, headerStarted, runnerStarted, cancelAt,
                   ackEvents, sessionSuccess, outsideSession>>

\* the child process is gone, by its own exit or terminated by the
\* controller; the attempt is recorded and the cursor advances
ProcessExit(outcome) ==
    /\ phase = "running"
    /\ results' = [results EXCEPT
                      ![cursor] = IF CancelObserved THEN "cancelled" ELSE outcome]
    /\ cursor' = cursor + 1
    /\ phase' = "boundary"
    /\ UNCHANGED <<ctl, nCombos, headerStarted, runnerStarted, cancelAt,
                   ackEvents, sessionSuccess,
                   outsideSession>>

\* the sequence is exhausted
LoopEnds ==
    /\ phase = "boundary"
    /\ cursor > nCombos
    /\ phase' = "finished"
    /\ ctl' = IF ctl = "Running" THEN "Completed" ELSE ctl
    /\ sessionSuccess' = AllSuccess(results)
    /\ UNCHANGED <<nCombos, cursor, results, headerStarted, runnerStarted,
                   cancelAt, ackEvents, outsideSession>>

\* "cancel build" while the session runs: the cooperative flag is set and
\* the running process tree signalled; in any other state it is a no-op
CancelBuild ==
    /\ ctl = "Running"
    /\ ctl' = "CancelRequested"
    /\ cancelAt' = IF phase = "running" THEN cursor ELSE 0
    /\ UNCHANGED <<nCombos, cursor, phase, results, headerStarted,
                   runnerStarted, ackEvents, sessionSuccess,
                   outsideSession>>

\* the process tree is confirmed gone: the cancellation-acknowledged event
AcknowledgeCancel ==
    /\ ctl = "CancelRequested"
    /\ phase \notin {"header", "running"}
    /\ ctl' = "Cancelled"
    /\ ackEvents' = ackEvents + 1
    /\ UNCHANGED <<nCombos, cursor, phase, results, headerStarted,
                   runnerStarted, cancelAt, sessionSuccess,
                   outsideSession>>

SessionNext ==
    \/ \E n \in 1..MaxCombos : StartBuild(n)
    \/ SkipRemaining
    \/ EmitHeader
    \/ SpawnProcess
    \/ FatalError
    \/ \E outcome \in Outcomes : ProcessExit(outcome)
    \/ LoopEnds
    \/ CancelBuild
    \/ AcknowledgeCancel

SpecSession == SessionInit /\ [][SessionNext]_vars

(***************************************************************************)
(* Claims about the build session, checked under SpecSession.              *)
(***************************************************************************)
\* C9: for a session cancelled while the process of combination i runs, the
\* Header Emitter and the Process Runner are never started for a
\* combination j > i, combination i is recorded as cancelled, the
\* combinations after i are skipped once the loop has stopped, and the
\* combinations before i keep their recorded outcome.
C9_CancelSkipsTheRest ==
    /\ [](cancelAt > 0 =>
            /\ \A j \in headerStarted \cup runnerStarted : j <= cancelAt
            /\ cursor > cancelAt => results[cancelAt] = "cancelled"
            /\ phase \in {"stopped", "finished"} =>
                  \A j \in (cancelAt + 1)..nCombos : results[j] = "skipped"
            /\ \A j \in 1..(cancelAt - 1) : results[j] \in Outcomes)
    /\ [][\A j \in 1..nCombos :
             results[j] # "pending" => results'[j] = results[j]]_vars

\* a session of at least three combinations cancelled during the second
C9_Witness ==
    /\ cancelAt = 2
    /\ nCombos >= 3
    /\ phase = "stopped"
    /\ ackEvents = 1
    /\ results[1] \in Outcomes
    /\ results[2] = "cancelled"
    /\ \A j \in 3..nCombos : results[j] = "skipped"

\* the loop of the session has stopped
SessionEnded == phase \in {"finished", "stopped", "aborted"}

\* C17: a per-combination failure never stops the loop: a session that ended
\* before every combination was attempted was ended by a fatal error or by
\* a cancellation.
C17_OnlyFatalOrCancelEndsEarly ==
    (SessionEnded /\ runnerStarted # 1..nCombos) =>
        (phase = "aborted" \/ CancelObserved)

\* a session that ran to its end although its first combination failed
C17_Witness ==
    /\ phase = "finished"
    /\ nCombos >= 3
    /\ results[1] = "failure"
    /\ results[2] = "success"
    /\ runnerStarted = 1..nCombos
    /\ ctl = "Completed"

\* C18: the aggregated success flag is the logical AND of the
\* per-combination outcomes: true only if every combination was recorded as
\* success; a failed, cancelled or skipped combination makes it false.
C18_SuccessIsConjunction ==
    SessionEnded =>
        (sessionSuccess <=> \A j \in 1..nCombos : results[j] = "success")

\* a cancelled session in which no combination failed
C18_Witness ==
    /\ phase = "stopped"
    /\ nCombos >= 3
    /\ results[1] = "success"
    /\ results[2] = "cancelled"
    /\ results[3] = "skipped"
    /\ ~sessionSuccess

(***************************************************************************)
(* SpecSchema: loading the schema.  services/buildService                  *)
(* loadBuildSettings calls the load_build_settings_schema command of the   *)
(* Rust back end, which reads and validates the schema document; the       *)
(* command is modelled from the design document (6, 7): a document in      *)
(* which a format tag disagrees with the field_type is a schema            *)
(* validation error.                                                       *)
(***************************************************************************)
MaxSettings == 2

FieldTypes == {"range", "select", "checkbox_group"}

\* format tags a document may carry; "" stands for a missing tag
Formats == {"number", "string", "string[]", "boolean", ""}

SettingDefs == [field_type : FieldTypes, format : Formats]

SchemaDocs == UNION {[1..n -> SettingDefs] : n \in 0..MaxSettings}

SchemaInit ==
    /\ RangeParked
    /\ BuildParked
    /\ FormParked
    /\ SessionParked
    /\ GenerateParked
    /\ LogsParked
    /\ schemaDoc \in SchemaDocs
    /\ schemaPc = "start"
    /\ backendAnswer = [ok |-> FALSE, schema |-> <<>>]
    /\ loadedSchema = [loaded |-> FALSE, schema |-> <<>>]

FormatAgrees_KnownTagOnly(setting) ==
    setting.format \in {"number", "string", "string[]"}

\* the back end's check of one setting definition
FormatAgrees(setting) ==
    \/ setting.field_type = "range" /\ setting.format = "number"
    \/ setting.field_type = "select" /\ setting.format = "string"
    \/ setting.field_type = "checkbox_group" /\ setting.format = "string[]"

\* load_build_settings_schema settles: it resolves with the document or
\* rejects with a schema validation error
BackendLoadsSchema ==
    /\ schemaPc = "start"
    /\ schemaPc' = "answered"
    /\ backendAnswer' =
          IF \A i \in 1..Len(schemaDoc) : FormatAgrees(schemaDoc[i])
          THEN [ok |-> TRUE, schema |-> schemaDoc]
          ELSE [ok |-> FALSE, schema |-> <<>>]
    /\ UNCHANGED <<schemaDoc, loadedSchema, outsideSchema>>

\* schema.build_settings?.every(...) of loadBuildSettings
ValidFormatField(setting) ==
    /\ setting.format # ""
    /\ setting.format \in {"number", "string", "string[]"}

\* loadBuildSettings after its await: returns the schema or throws
loadBuildSettings ==
    /\ schemaPc = "answered"
    /\ IF /\ backendAnswer.ok
          /\ \A i \in 1..Len(backendAnswer.schema) :
                ValidFormatField(backendAnswer.schema[i])
       THEN /\ schemaPc' = "returned"
            /\ loadedSchema' = [loaded |-> TRUE, schema |-> backendAnswer.schema]
       ELSE /\ schemaPc' = "thrown"
            /\ UNCHANGED loadedSchema
    /\ UNCHANGED <<schemaDoc, backendAnswer, outsideSchema>>

SchemaNext == BackendLoadsSchema \/ loadBuildSettings

SpecSchema == SchemaInit /\ [][SchemaNext]_vars

(***************************************************************************)
(* Claims about schema loading, checked under SpecSchema.                  *)
(***************************************************************************)
\* the format tag the design document requires for a field_type
RequiredFormat(field_type) ==
    CASE field_type = "range" -> "number"
      [] field_type = "select" -> "string"
      [] field_type = "checkbox_group" -> "string[]"

Mismatched(doc) ==
    \E i \in 1..Len(doc) : doc[i].format # RequiredFormat(doc[i].field_type)

MaxValues == 3

CombinationCeiling == 1000

\* the setting ids in declaration order
SchemaOrder == <<"device_type", "channel", "device_mode", "languages">>

FieldTypeOf(id) ==
    CASE id \in {"device_type", "channel"} -> "range"
      [] id = "device_mode" -> "select"
      [] id = "languages" -> "checkbox_group"

\* the define of a range setting
DefineOf(id) == IF id = "device_type" THEN "DEVICE_TYPE" ELSE "CHANNEL"

\* the define of an option of a select or checkbox_group setting
OptionDefine(value) ==
    CASE value = "GPIO" -> "DEVICE_MODE_GPIO"
      [] value = "ADC_EXT" -> "DEVICE_MODE_ADC_EXT"
      [] value = "en" -> "LANG_EN"
      [] value = "kz" -> "LANG_KZ"

\* the expansions of a range setting: 4, 4-5, 4-6, ...
RangeLists == {[i \in 1..n |-> 3 + i] : n \in 0..MaxValues}

GenerateInit ==
    /\ RangeParked
    /\ BuildParked
    /\ FormParked
    /\ SessionParked
    /\ SchemaParked
    /\ LogsParked
    /\ request \in [device_type : RangeLists, channel : RangeLists,
                    device_mode : {<<>>, <<"GPIO">>, <<"ADC_EXT">>},
                    languages : Selections]
    /\ combos = <<>>
    /\ genPc = "request"
    /\ genCursor = 0
    /\ headerFile \in [markers : BOOLEAN, region : {<<>>, <<<<"OLD_DEFINE">>>>}]
    /\ tempFile = <<>>
    /\ launched = {}

Candidates_CheckboxAsAxis(id, value) ==
    IF FieldTypeOf(id) # "checkbox_group" THEN value
    ELSE IF Len(value) = 0 THEN <<value>>
    ELSE [i \in 1..Len(value) |-> <<value[i]>>]

\* ResolvedValue: the candidate values of a setting
Candidates(id, value) ==
    IF FieldTypeOf(id) = "checkbox_group" THEN <<value>> ELSE value

Cross_FirstCandidateOnly(id, cands, rest) ==
    [k \in 1..Len(rest) |-> With(rest[k], id, cands[1])]

\* every candidate of id combined with every assignment of the settings
\* declared after it, the candidates of id outermost
Cross(id, cands, rest) ==
    [k \in 1..(Len(cands) * Len(rest)) |->
        With(rest[((k - 1) % Len(rest)) + 1], id,
             cands[((k - 1) \div Len(rest)) + 1])]

\* the Cartesian product in declaration order; a setting without a value
\* is left out of the assignments
RECURSIVE Expand(_, _)
Expand(ids, req) ==
    IF ids = <<>> THEN <<EmptyObject>>
    ELSE LET cands == Candidates(Head(ids), req[Head(ids)])
             rest == Expand(Tail(ids), req)
         IN  IF Len(cands) = 0 THEN rest ELSE Cross(Head(ids), cands, rest)

\* the #define lines of one setting of a combination
DefineLines(id, combo) ==
    IF id \notin DOMAIN combo THEN <<>>
    ELSE IF FieldTypeOf(id) = "range" THEN <<<<DefineOf(id), combo[id]>>>>
    ELSE IF FieldTypeOf(id) = "select" THEN <<<<OptionDefine(combo[id])>>>>
    ELSE [i \in 1..Len(combo[id]) |-> <<OptionDefine(combo[id][i])>>]

\* one #define line per active define of the combination
RECURSIVE Defines(_, _)
Defines(ids, combo) ==
    IF ids = <<>> THEN <<>>
    ELSE DefineLines(Head(ids), combo) \o Defines(Tail(ids), combo)

\* the Combination Generator
Generate ==
    /\ genPc = "request"
    /\ LET generated == Expand(SchemaOrder, request) IN
       IF Len(generated) > CombinationCeiling
       THEN /\ genPc' = "rejected"
            /\ UNCHANGED <<combos, genCursor>>
       ELSE /\ combos' = generated
            /\ genCursor' = 1
            /\ genPc' = "boundary"
    /\ UNCHANGED <<request, headerFile, tempFile, launched, outsideGenerate>>

WriteTempHeader_NoMarkerCheck ==
    /\ genPc = "boundary"
    /\ genCursor <= Len(combos)
    /\ tempFile' = <<[markers |-> TRUE,
                      region |-> Defines(SchemaOrder, combos[genCursor])]>>
    /\ genPc' = "temp_written"
    /\ UNCHANGED <<request, combos, genCursor, headerFile, launched,
                   outsideGenerate>>

\* the Header Emitter reads the file: without the markers it fails, with
\* them it writes the new content to a temporary file
WriteTempHeader ==
    /\ genPc = "boundary"
    /\ genCursor <= Len(combos)
    /\ IF ~headerFile.markers
       THEN /\ genPc' = "header_error"
            /\ UNCHANGED tempFile
       ELSE /\ tempFile' = <<[markers |-> TRUE,
                              region |-> Defines(SchemaOrder, combos[genCursor])]>>
            /\ genPc' = "temp_written"
    /\ UNCHANGED <<request, combos, genCursor, headerFile, launched,
                   outsideGenerate>>

\* the temporary file is renamed into place
RenameHeader ==
    /\ genPc = "temp_written"
    /\ headerFile' = tempFile[1]
    /\ tempFile' = <<>>
    /\ genPc' = "header_written"
    /\ UNCHANGED <<request, combos, genCursor, launched, outsideGenerate>>

\* the Process Runner spawns the build tool
LaunchTool ==
    /\ genPc = "header_written"
    /\ launched' = launched \cup {genCursor}
    /\ genPc' = "running"
    /\ UNCHANGED <<request, combos, genCursor, headerFile, tempFile,
                   outsideGenerate>>

ToolExits ==
    /\ genPc = "running"
    /\ genCursor' = genCursor + 1
    /\ genPc' = "boundary"
    /\ UNCHANGED <<request, combos, headerFile, tempFile, launched,
                   outsideGenerate>>

RequestDone ==
    /\ genPc = "boundary"
    /\ genCursor > Len(combos)
    /\ genPc' = "done"
    /\ UNCHANGED <<request, combos, genCursor, headerFile, tempFile, launched,
                   outsideGenerate>>

GenerateNext ==
    \/ Generate
    \/ WriteTempHeader
    \/ RenameHeader
    \/ LaunchTool
    \/ ToolExits
    \/ RequestDone

SpecGenerate == GenerateInit /\ [][GenerateNext]_vars

(***************************************************************************)
(* Claims about generation and the header, checked under SpecGenerate.     *)
(***************************************************************************)
Generated == genPc \notin {"request", "rejected", "off"}

\* the number of candidate values the request holds for a setting
Cardinality_Of(id) == Len(Candidates(id, request[id]))

\* the settings of the request with more than one candidate value
ListValuedIds ==
    {id \in Elements(SchemaOrder) : Cardinality_Of(id) > 1}

RECURSIVE ProductOver(_)
ProductOver(ids) ==
    IF ids = {} THEN 1
    ELSE LET id == CHOOSE x \in ids : TRUE
         IN  Cardinality_Of(id) * ProductOver(ids \ {id})

\* C15: the number of generated combinations is the product of the
\* cardinalities of the resolved values of the list-valued settings, and
\* exactly 1 when no setting is list-valued.
C15_CountIsProduct ==
    Generated =>
        /\ Len(combos) = ProductOver(ListValuedIds)
        /\ ListValuedIds = {} => Len(combos) = 1

\* two list-valued range settings
C15_Witness ==
    /\ Generated
    /\ Len(request.device_type) = 3
    /\ Len(request.channel) = 2
    /\ Len(combos) = 6

\* C16: the selected options of a checkbox_group go together into every
\* combination and never form an axis of the product: a selection of several
\* options with a single select value (and no list-valued range) yields
\* exactly 1 combination, whose header carries one define per selected
\* option plus the define of the select value.
C16_CheckboxIsOneFixedSet ==
    Generated =>
        /\ \A k \in 1..Len(combos) : combos[k]["languages"] = request.languages
        /\ Len(combos) = ProductOver({id \in ListValuedIds : FieldTypeOf(id) = "range"})
        /\ (Len(request.device_type) <= 1 /\ Len(request.channel) <= 1) =>
              Len(combos) = 1
        /\ genPc \in {"header_written", "running"} =>
              /\ \A opt \in Elements(request.languages) :
                    <<OptionDefine(opt)>> \in Elements(headerFile.region)
              /\ \A v \in Elements(request.device_mode) :
                    <<OptionDefine(v)>> \in Elements(headerFile.region)
              /\ Cardinality({i \in 1..Len(headerFile.region) :
                                 Len(headerFile.region[i]) = 1})
                    = Len(request.languages) + Len(request.device_mode)

\* scenario C: languages en and kz, device_mode GPIO
C16_Witness ==
    /\ genPc = "header_written"
    /\ request.languages = <<"en", "kz">>
    /\ request.device_mode = <<"GPIO">>
    /\ request.device_type = <<>>
    /\ request.channel = <<>>
    /\ Len(combos) = 1
    /\ headerFile.region = <<<<"DEVICE_MODE_GPIO">>, <<"LANG_EN">>, <<"LANG_KZ">>>>

\* C19: when the target header file lacks the guard markers, the request
\* ends in a header format error, no build tool is launched and nothing is
\* written: the file keeps its content and no other file is created.
C19_MissingMarkersWriteNothing ==
    /\ [](~headerFile.markers =>
             /\ genPc \in {"off", "request", "rejected", "boundary", "header_error"}
             /\ (genPc = "boundary" => genCursor = 1)
             /\ launched = {}
             /\ tempFile = <<>>)
    /\ [][~headerFile.markers => headerFile' = headerFile]_vars

C19_Witness ==
    /\ genPc = "header_error"
    /\ ~headerFile.markers
    /\ headerFile.region = <<<<"OLD_DEFINE">>>>
    /\ Len(combos) >= 2
    /\ launched = {}

(***************************************************************************)
(* SpecSettings: the settings form and the Build button together.  The     *)
(* form starts from the empty configuration with the four paths chosen;    *)
(* the schema is the README's: the checkbox_group languages requires one   *)
(* selected option, and the range setting is bounded.  build() sends the   *)
(* entries of buildConfig.settings as they are (part_004 lines 67-71).     *)
(***************************************************************************)
\* min_selected of the schema's checkbox groups (README: languages, 1)
SchemaMinSelected == [id \in GroupIds |-> IF id = "languages" THEN 1 ELSE 0]

\* validation of the schema's range setting
SchemaValidation == Validation(1, MaxBound)

\* the texts typed into the range input
TypedRanges ==
    {<<>>, <<" ">>, <<"1">>, <<"1", "-", "2">>, <<"2", "-", "1">>, <<"1", ",">>}

SettingsInit ==
    /\ RangeParked
    /\ SessionParked
    /\ SchemaParked
    /\ GenerateParked
    /\ LogsParked
    /\ settings = RequiredFields
    /\ buildStatus = "idle"
    /\ buildMessages = <<>>
    /\ isCancelling = FALSE
    /\ bpc = [b \in Builds |-> "none"]
    /\ cpc = [c \in Cancels |-> "none"]
    /\ listeners = {}
    /\ timers = {}
    /\ pending = {}
    /\ cancelSeen = {}
    /\ owed = 0
    /\ acks = 0
    /\ minSelected = SchemaMinSelected
    /\ buildConfig = [settings |-> EmptyObject]
    /\ localSettings = EmptyObject
    /\ validationErrors = EmptyObject
    /\ rangeInputs = EmptyObject
    /\ optMin = 0
    /\ optValue = <<>>
    /\ validationError = NoError

\* the input event of the range input of setting id, now holding value
EditRange(id, value) ==
    /\ onRangeInput(id, SchemaValidation, value)
    /\ UNCHANGED <<minSelected, optMin, optValue, validationError, outsideForm>>

SettingsNext ==
    \/ \E id \in GroupIds, value \in Options, checked \in BOOLEAN :
          updateCheckboxGroup(id, value, checked)
    \/ \E id \in RangeIds, value \in TypedRanges : EditRange(id, value)
    \/ resetSettings
    \/ \E b \in Builds : BuildRequest(b)
    \/ \E b \in Builds, r \in BuildResults : BuildResolved(b, r)
    \/ \E b \in Builds : BuildRejected(b)

SpecSettings == SettingsInit /\ [][SettingsNext]_vars

(***************************************************************************)
(* Claims about the settings a build request carries                       *)
(***************************************************************************)
\* the settings build() would send: the entries of buildConfig.settings
\* (no handler stores null, so the filter of build() removes nothing)
SubmittedSettings == buildConfig.settings

\* the value of a range setting passes validateNumericRange for its bounds
RangeValueValid(value) ==
    validateNumericRange(JoinComma(value), SchemaValidation.min,
                         SchemaValidation.max)

\* every range value is valid and every checkbox_group with min_selected
\* holds at least min_selected selected options
SettingsValid(sent) ==
    /\ \A id \in RangeIds : id \in DOMAIN sent => RangeValueValid(sent[id])
    /\ \A id \in GroupIds :
          minSelected[id] > 0 => Len(Lookup(sent, id, <<>>)) >= minSelected[id]

\* C20: whenever build_project is invoked, the settings sent pass
\* validation: every range value passes validateNumericRange and every
\* checkbox_group with min_selected holds at least min_selected options,
\* for every sequence of edits, resets and build requests that starts from
\* the empty configuration.
C20_SubmittedSettingsAreValid ==
    [][\A b \in Builds :
          (bpc[b] = "none" /\ bpc'[b] = "awaiting") =>
              SettingsValid(SubmittedSettings)]_vars

\* the range half of C20 alone: a range value sent to the back end always
\* passes validateNumericRange
C20_SubmittedRangesAreValid ==
    [][\A b \in Builds :
          (bpc[b] = "none" /\ bpc'[b] = "awaiting") =>
              \A id \in RangeIds :
                  id \in DOMAIN SubmittedSettings =>
                      RangeValueValid(SubmittedSettings[id])]_vars

(***************************************************************************)
(* SpecLogs: the build-log listener of App.vue (onMounted, lines 131-159)  *)
(* and clearAllMessages.  The back end emits the events; the listener      *)
(* handles them one at a time in the order they are received.  The time    *)
(* stamp of an entry (hh:mm:ss, formatTimestamp) is the clock reading at   *)
(* its arrival; it is modelled as the arrival number, which tells apart    *)
(* entries the clock would stamp alike.                                    *)
(***************************************************************************)
MaxLogEvents == 3

\* 'stdout:'
StdoutTag == <<"s", "t", "d", "o", "u", "t", ":">>

\* 'stderr:'
StderrTag == <<"s", "t", "d", "e", "r", "r", ":">>

\* '[ERROR] '
ErrorTag == <<"[", "E", "R", "R", "O", "R", "]", " ">>

\* the lines the build tool writes
LogLines == {<<>>, <<" ">>, <<"a">>, <<" ", "a", " ">>}

\* the payloads of the build-log events
Payloads == {tag \o line : tag \in {StdoutTag, StderrTag, <<>>}, line \in LogLines}

\* s.startsWith(p)
StartsWith(s, p) == Len(s) >= Len(p) /\ SubSeq(s, 1, Len(p)) = p

\* s.substring(n)
Substring(s, n) == SubSeq(s, n + 1, Len(s))

\* `[${formatTimestamp()}] ${text}`
LogEntry(time, text) == [time |-> time, text |-> text]

\* `Failed to load build settings: ${e}`
LoadFailure == <<"Failed to load build settings">>

\* formatTimestamp() while the next event is handled
Now == Len(received) + 1

LogsInit ==
    /\ RangeParked
    /\ BuildParked
    /\ FormParked
    /\ SessionParked
    /\ SchemaParked
    /\ GenerateParked
    /\ buildLogs \in {<<>>, <<LogEntry(0, LoadFailure)>>}
    /\ currentStdout = <<>>
    /\ received = <<>>

PushLog_Unshift(logs, entry) == <<entry>> \o logs

\* logs.push(entry)
PushLog(logs, entry) == Append(logs, entry)

\* the listener of 'build-log' is called with event.payload = payload
BuildLogEvent(payload) ==
    /\ Len(received) < MaxLogEvents
    /\ received' = Append(received, payload)
    /\ IF StartsWith(payload, StdoutTag)
       THEN LET stdoutLine == Trim(Substring(payload, 7))
            IN  /\ currentStdout' = stdoutLine
                /\ buildLogs' = IF Len(stdoutLine) > 0
                                THEN PushLog(buildLogs, LogEntry(Now, stdoutLine))
                                ELSE buildLogs
       ELSE IF StartsWith(payload, StderrTag)
       THEN LET stderrLine == Trim(Substring(payload, 7))
            IN  /\ buildLogs' = IF Len(stderrLine) > 0
                                THEN PushLog(buildLogs,
                                             LogEntry(Now, ErrorTag \o stderrLine))
                                ELSE buildLogs
                /\ UNCHANGED currentStdout
       ELSE /\ buildLogs' = PushLog(buildLogs, LogEntry(Now, payload))
            /\ UNCHANGED currentStdout
    /\ UNCHANGED outsideLogs

\* clearAllMessages(), App.vue lines 191-194
clearAllMessages ==
    /\ buildMessages' = <<>>
    /\ buildLogs' = <<>>
    /\ UNCHANGED <<currentStdout, received, settings, buildStatus, isCancelling,
                   bpc, cpc, listeners, timers, pending, cancelSeen, owed, acks,
                   rangeVars, formVars, sessionVars, schemaVars, genVars>>

LogsNext ==
    \/ \E payload \in Payloads : BuildLogEvent(payload)
    \/ clearAllMessages

SpecLogs == LogsInit /\ [][LogsNext]_vars

(***************************************************************************)
(* Claims about the build log, checked under SpecLogs.                     *)
(***************************************************************************)
\* the payload is a stdout or stderr line
Tagged(payload) == StartsWith(payload, StdoutTag) \/ StartsWith(payload, StderrTag)

\* what follows the tag holds nothing but spaces
BlankLine(payload) == \A i \in 8..Len(payload) : payload[i] = " "

\* the entries appended by the step
Appended == SubSeq(buildLogs', Len(buildLogs) + 1, Len(buildLogs'))

\* C28: log events are recorded as they arrive and in arrival order: each
\* build-log event appends at most one entry to buildLogs, none for a stdout
\* or stderr line that is blank after trimming and one otherwise, the entry
\* of a stderr line is tagged [ERROR], the event leaves every earlier entry
\* in place, and the entries stand in the order their events were received.
C28_LogInArrivalOrder ==
    /\ [][\A payload \in Payloads :
             BuildLogEvent(payload) =>
                 /\ Len(buildLogs') >= Len(buildLogs)
                 /\ SubSeq(buildLogs', 1, Len(buildLogs)) = buildLogs
                 /\ Len(Appended) = (IF Tagged(payload) /\ BlankLine(payload)
                                     THEN 0 ELSE 1)
                 /\ \A i \in 1..Len(Appended) :
                       /\ Appended[i].time = Len(received')
                       /\ StartsWith(payload, StderrTag) <=>
                             StartsWith(Appended[i].text, ErrorTag)]_vars
    /\ [](\A i, j \in 1..Len(buildLogs) :
             i < j => buildLogs[i].time < buildLogs[j].time)

\* a failed schema load, then a stdout line, a blank stderr line and a
\* stderr line: three entries, the last one tagged
C28_Witness ==
    /\ Len(received) = 3
    /\ received[1] = StdoutTag \o <<"a">>
    /\ received[2] = StderrTag \o <<" ">>
    /\ received[3] = StderrTag \o <<" ", "a", " ">>
    /\ buildLogs = <<LogEntry(0, LoadFailure), LogEntry(1, <<"a">>),
                     LogEntry(3, ErrorTag \o <<"a">>)>>

\* C29: in the range input handler that stores the parsed list, a text that
\* fails validateNumericRange leaves the whole build configuration as it
\* was (the setting's value is neither cleared nor partly updated and no
\* other setting changes) and records the validation error under the
\* setting's id.
C29_InvalidRangeLeavesValue ==
    [][\A id \in RangeIds, value \in TypedRanges :
          (EditRange(id, value)
             /\ ~validateNumericRange(value, SchemaValidation.min,
                                      SchemaValidation.max))
          => /\ buildConfig' = buildConfig
             /\ localSettings' = localSettings
             /\ id \in DOMAIN validationErrors'
             /\ validationErrors'[id] = InvalidRangeError(SchemaValidation)
             /\ \A other \in DOMAIN validationErrors' \ {id} :
                   other \in DOMAIN validationErrors
                     /\ validationErrors'[other] = validationErrors[other]]_vars

\* the list 1, 2 is stored, a language is selected, and the text "2-1" was
\* rejected
C29_Witness ==
    /\ "device_type" \in DOMAIN buildConfig.settings
    /\ buildConfig.settings["device_type"] = <<1, 2>>
    /\ Lookup(buildConfig.settings, "languages", <<>>) # <<>>
    /\ Lookup(rangeInputs, "device_type", <<>>) = <<"2", "-", "1">>
    /\ "device_type" \in DOMAIN validationErrors
    /\ validationErrors["device_type"] = InvalidRangeError(SchemaValidation)

\* the step edits a setting other than id
EditOfOther(id) ==
    \/ \E g \in GroupIds \ {id}, value \in Options, checked \in BOOLEAN :
          updateCheckboxGroup(g, value, checked)
    \/ \E r \in RangeIds \ {id}, value \in TypedRanges : EditRange(r, value)

\* the validation error shown for the setting id
ShownError(errors, id) == Lookup(errors, id, NoError)

\* C30: a validation error recorded for one setting is left as it is by
\* edits of other settings; in particular a successful update of another
\* setting does not clear it.
C30_ErrorSurvivesOtherEdits ==
    [][\A id \in RangeIds \cup GroupIds :
          (Len(ShownError(validationErrors, id)) > 0 /\ EditOfOther(id))
          => Len(ShownError(validationErrors', id)) > 0]_vars

====
